---- MODULE Spec2Model ----
(***************************************************************************)
(* Websocket connector of arroyo-connectors (src/websocket.rs).            *)
(*                                                                         *)
(* Two parts are modelled:                                                 *)
(*   - the connectivity test (WebsocketConnector::test): a spawned task    *)
(*     that connects, optionally sends a subscription message, races the   *)
(*     first inbound item against a 30 second sleep, and reports progress  *)
(*     as TestSourceMessage events on a bounded mpsc channel whose         *)
(*     receiver belongs to an observer;                                    *)
(*   - the configuration compiler (from_config / from_options).            *)
(*                                                                         *)
(* Option<T> is modelled as a sequence of length 0 (None) or 1 (Some).     *)
(***************************************************************************)
EXTENDS Integers, Sequences, FiniteSets, TLC

\* ------------------------------------------------------------------ bounds
\* capacity of the mpsc channel behind the Sender handed to test()
ChanCap == 1

\* ------------------------------------------------------------ input domains
Sessions == {1, 2}
Endpoints == {"ws://a/feed", "ws://b/feed"}
SubMsgs == {"subscribe"}

None == <<>>
Some(x) == <<x>>
IsSome(o) == Len(o) = 1
Unwrap(o) == o[1]

\* WebsocketTable generated by import_types!: endpoint, subscription_message
Tables == [endpoint : Endpoints,
           subscription_message : {None} \cup {Some(m) : m \in SubMsgs}]

\* items rx.next() can yield: Some(Ok(frame)), Some(Err(e)), None
\* "Text" is a data frame, "Close" a close notification delivered as an item
InboundItems == {"Text", "Close", "Err", "End"}

\* -------------------------------------------------------------------- state
VARIABLES
  pendingCalls, \* test() invocations the caller has not made yet
  caller,       \* per invocation: "idle" | "returned" | "unwound"
  table,        \* per session: Option<WebsocketTable> moved into the task
  pc,           \* per session: the await point the task is suspended at
  emitted,      \* per session: events passed to the send closure, in order
  chan,         \* per session: events buffered in the mpsc channel
  sinkOpen,     \* per session: the observer still holds the Receiver
  received,     \* per session: events the observer has taken off the channel
  conn,         \* per session: "none" | "open" | "released" websocket stream
  fx,           \* per session: transport operations started by the task,
                \* and "ws_send_err" once the subscription send has failed
  inbound,      \* per session: "pending" or the item rx.next() will yield
  timer,        \* per session: "unset" | "running" | "elapsed" | "dropped"
  picked,       \* per session: branch select! completed with
  opts,         \* from_options: the caller's options map
  opts0,        \* from_options: the options map as it was before the call
  schema,       \* compile call: Option<ConnectionSchema>
  cargs,        \* compile call: id, name, table arguments
  cpc,          \* compile call: "ready" | "from_options" | "from_config"
  result        \* compile call: the anyhow::Result<Connection> returned

sessVars == <<pendingCalls, caller, table, pc, emitted, chan, sinkOpen,
              received, conn, fx, inbound, timer, picked>>
compVars == <<opts, opts0, schema, cargs, cpc, result>>
vars == <<pendingCalls, caller, table, pc, emitted, chan, sinkOpen,
          received, conn, fx, inbound, timer, picked,
          opts, opts0, schema, cargs, cpc, result>>

\* ------------------------------------------------------------------- events
\* TestSourceMessage { error, done, message }; the Debug rendering of the
\* error value appended by format! is left out of the message text.
Msg(error, done, message) ==
  [error |-> error, done |-> done, message |-> message]

EvConnectFailed == Msg(TRUE, TRUE, "Failed to connect to websocket server")
EvConnected == Msg(FALSE, FALSE, "Successfully connected to websocket server")
EvSentSub == Msg(FALSE, FALSE, "Sent subscription message")
EvSubFailed == Msg(TRUE, TRUE, "Failed to send subscription message")
EvReceived == Msg(FALSE, FALSE, "Received message from websocket")
\* the receive-error event sent as send(true, false, ..)
EvRecvError_NotDone == Msg(TRUE, FALSE, "Received error from websocket")
EvRecvError == Msg(TRUE, TRUE, "Received error from websocket")
EvDisconnected ==
  Msg(TRUE, TRUE, "Websocket disconnected before sending message")
EvTimeout == Msg(TRUE, TRUE, "Did not receive any messages after 30 seconds")
EvValidated == Msg(FALSE, TRUE, "Successfully validated websocket connection")

\* ------------------------------------------------- connectivity test session
SendPcs == {"send_connect_failed", "send_connected", "send_sent_sub",
            "send_sub_failed", "send_received", "send_recv_error",
            "send_disconnected", "send_timeout", "send_validated"}
Terminal == {"done", "panicked"}

\* the send closure: builds the TestSourceMessage and starts tx.send(..)
Emit(s, ev) == emitted' = [emitted EXCEPT ![s] = Append(@, ev)]

\* fn test(..): tokio::task::spawn(async move {..}) and return; the task
\* owns the table and the Sender, the JoinHandle is dropped.
Test(s, t) ==
  /\ s \in pendingCalls
  /\ pendingCalls' = pendingCalls \ {s}
  /\ caller' = [caller EXCEPT ![s] = "returned"]
  /\ table' = [table EXCEPT ![s] = Some(t)]
  /\ pc' = [pc EXCEPT ![s] = "connecting"]
  /\ UNCHANGED <<emitted, chan, sinkOpen, received, conn, fx, inbound,
                 timer, picked>>
  /\ UNCHANGED compVars

\* connect_async(&table.endpoint).await resolves; Err: send(true, true, ..)
\* then return; Ok: send(false, false, "Successfully connected ..")
ConnectDone(s, ok) ==
  /\ pc[s] = "connecting"
  /\ IF ok
       THEN /\ conn' = [conn EXCEPT ![s] = "open"]
            /\ Emit(s, EvConnected)
            /\ pc' = [pc EXCEPT ![s] = "send_connected"]
       ELSE /\ conn' = conn
            /\ Emit(s, EvConnectFailed)
            /\ pc' = [pc EXCEPT ![s] = "send_connect_failed"]
  /\ UNCHANGED <<pendingCalls, caller, table, chan, sinkOpen, received, fx,
                 inbound, timer, picked>>
  /\ UNCHANGED compVars

\* AfterSend without the `return` that ends the connect-failure arm
AfterSend_ConnectFailFallsThrough(p, t) ==
  CASE p = "send_connect_failed" -> "select"
    [] p = "send_connected" ->
         IF IsSome(t.subscription_message) THEN "subscribe" ELSE "select"
    [] p = "send_sent_sub" -> "select"
    [] p = "send_received" -> "validated"
    [] OTHER -> "return"

\* AfterSend without the `return` that ends the timeout arm
AfterSend_TimeoutFallsThrough(p, t) ==
  CASE p = "send_connected" ->
         IF IsSome(t.subscription_message) THEN "subscribe" ELSE "select"
    [] p = "send_sent_sub" -> "select"
    [] p = "send_received" -> "validated"
    [] p = "send_timeout" -> "validated"
    [] OTHER -> "return"

\* AfterSend that waits again after a timeout instead of returning
AfterSend_TimeoutRetries(p, t) ==
  CASE p = "send_connected" ->
         IF IsSome(t.subscription_message) THEN "subscribe" ELSE "select"
    [] p = "send_sent_sub" -> "select"
    [] p = "send_received" -> "validated"
    [] p = "send_timeout" -> "select"
    [] OTHER -> "return"

\* AfterSend without the `return` that ends the subscription-failure arm
AfterSend_SubFailFallsThrough(p, t) ==
  CASE p = "send_connected" ->
         IF IsSome(t.subscription_message) THEN "subscribe" ELSE "select"
    [] p = "send_sent_sub" -> "select"
    [] p = "send_sub_failed" -> "select"
    [] p = "send_received" -> "validated"
    [] OTHER -> "return"

\* what the task does once the tx.send(..).await of the event it is
\* suspended on has completed
AfterSend(p, t) ==
  CASE p = "send_connect_failed" -> "return"
    [] p = "send_connected" ->
         IF IsSome(t.subscription_message) THEN "subscribe" ELSE "select"
    [] p = "send_sent_sub" -> "select"
    [] p = "send_sub_failed" -> "return"
    [] p = "send_received" -> "validated"
    [] p = "send_recv_error" -> "return"
    [] p = "send_disconnected" -> "return"
    [] p = "send_timeout" -> "return"
    [] p = "send_validated" -> "return"

\* the task ends (return or unwinding): both halves of the stream are dropped
Release(c) == IF c = "open" THEN "released" ELSE c

\* SendOk with try_send in place of send(..).await: the task goes on at
\* once and an event that finds the channel full is lost
SendOk_TrySend(s) ==
  /\ pc[s] \in SendPcs
  /\ sinkOpen[s]
  /\ chan' = [chan EXCEPT ![s] =
                IF Len(@) < ChanCap
                  THEN Append(@, emitted[s][Len(emitted[s])]) ELSE @]
  /\ LET nxt == AfterSend(pc[s], Unwrap(table[s])) IN
       /\ pc' = [pc EXCEPT ![s] =
                   CASE nxt = "return" -> "done"
                     [] nxt = "subscribe" -> "subscribing"
                     [] nxt = "select" -> "waiting"
                     [] nxt = "validated" -> "send_validated"]
       /\ emitted' = [emitted EXCEPT ![s] =
                   IF nxt = "validated" THEN Append(@, EvValidated) ELSE @]
       /\ fx' = [fx EXCEPT ![s] =
                   CASE nxt = "subscribe" -> @ \cup {"ws_send"}
                     [] nxt = "select" -> @ \cup {"ws_read", "timer"}
                     [] OTHER -> @]
       /\ timer' = [timer EXCEPT ![s] =
                   IF nxt = "select" THEN "running" ELSE @]
       /\ conn' = [conn EXCEPT ![s] =
                   IF nxt = "return" THEN Release(@) ELSE @]
  /\ UNCHANGED <<pendingCalls, caller, table, sinkOpen, received, inbound,
                 picked>>
  /\ UNCHANGED compVars

\* tx.send(Ok(event)).await returns Ok: the channel had room and the
\* Receiver is alive; the task runs on to its next await point
SendOk(s) ==
  /\ pc[s] \in SendPcs
  /\ sinkOpen[s]
  /\ Len(chan[s]) < ChanCap
  /\ chan' = [chan EXCEPT ![s] = Append(@, emitted[s][Len(emitted[s])])]
  /\ LET nxt == AfterSend(pc[s], Unwrap(table[s])) IN
       /\ pc' = [pc EXCEPT ![s] =
                   CASE nxt = "return" -> "done"
                     [] nxt = "subscribe" -> "subscribing"
                     [] nxt = "select" -> "waiting"
                     [] nxt = "validated" -> "send_validated"]
       /\ emitted' = [emitted EXCEPT ![s] =
                   IF nxt = "validated" THEN Append(@, EvValidated) ELSE @]
       /\ fx' = [fx EXCEPT ![s] =
                   CASE nxt = "subscribe" -> @ \cup {"ws_send"}
                     [] nxt = "select" -> @ \cup {"ws_read", "timer"}
                     [] OTHER -> @]
       /\ timer' = [timer EXCEPT ![s] =
                   IF nxt = "select" THEN "running" ELSE @]
       /\ conn' = [conn EXCEPT ![s] =
                   IF nxt = "return" THEN Release(@) ELSE @]
  /\ UNCHANGED <<pendingCalls, caller, table, sinkOpen, received, inbound,
                 picked>>
  /\ UNCHANGED compVars

\* SendErr with the panic carried into the function that called test()
SendErr_PanicReachesCaller(s) ==
  /\ pc[s] \in SendPcs
  /\ ~sinkOpen[s]
  /\ pc' = [pc EXCEPT ![s] = "panicked"]
  /\ caller' = [caller EXCEPT ![s] = "unwound"]
  /\ conn' = [conn EXCEPT ![s] = Release(@)]
  /\ UNCHANGED <<pendingCalls, table, emitted, chan, sinkOpen,
                 received, fx, inbound, timer, picked>>
  /\ UNCHANGED compVars

\* SendErr with a panic that ends every running task, not only its own
SendErr_AbortsAllTasks(s) ==
  /\ pc[s] \in SendPcs
  /\ ~sinkOpen[s]
  /\ pc' = [t \in Sessions |->
              IF pc[t] \in {"notstarted"} \cup Terminal
                THEN pc[t] ELSE "panicked"]
  /\ conn' = [t \in Sessions |-> Release(conn[t])]
  /\ UNCHANGED <<pendingCalls, caller, table, emitted, chan, sinkOpen,
                 received, fx, inbound, timer, picked>>
  /\ UNCHANGED compVars

\* tx.send(..).await returns Err(SendError) because the Receiver is gone;
\* .unwrap() panics, the task unwinds and the runtime swallows the panic
SendErr(s) ==
  /\ pc[s] \in SendPcs
  /\ ~sinkOpen[s]
  /\ pc' = [pc EXCEPT ![s] = "panicked"]
  /\ conn' = [conn EXCEPT ![s] = Release(@)]
  /\ UNCHANGED <<pendingCalls, caller, table, emitted, chan, sinkOpen,
                 received, fx, inbound, timer, picked>>
  /\ UNCHANGED compVars

\* SubscribeDone whose Ok arm goes on to the select! without a confirmation
SubscribeDone_NoConfirm(s, ok) ==
  /\ pc[s] = "subscribing"
  /\ IF ok
       THEN /\ emitted' = emitted
            /\ pc' = [pc EXCEPT ![s] = "waiting"]
            /\ fx' = [fx EXCEPT ![s] = @ \cup {"ws_read", "timer"}]
            /\ timer' = [timer EXCEPT ![s] = "running"]
       ELSE /\ Emit(s, EvSubFailed)
            /\ pc' = [pc EXCEPT ![s] = "send_sub_failed"]
            /\ fx' = [fx EXCEPT ![s] = @ \cup {"ws_send_err"}]
            /\ timer' = timer
  /\ UNCHANGED <<pendingCalls, caller, table, chan, sinkOpen, received, conn,
                 inbound, picked>>
  /\ UNCHANGED compVars

\* tx.send(Message::Text(msg)).await on the websocket resolves
SubscribeDone(s, ok) ==
  /\ pc[s] = "subscribing"
  /\ IF ok
       THEN /\ Emit(s, EvSentSub)
            /\ pc' = [pc EXCEPT ![s] = "send_sent_sub"]
            /\ fx' = fx
       ELSE /\ Emit(s, EvSubFailed)
            /\ pc' = [pc EXCEPT ![s] = "send_sub_failed"]
            /\ fx' = [fx EXCEPT ![s] = @ \cup {"ws_send_err"}]
  /\ UNCHANGED <<pendingCalls, caller, table, chan, sinkOpen, received, conn,
                 inbound, timer, picked>>
  /\ UNCHANGED compVars

\* match message { Some(Ok(_)) => .., Some(Err(e)) => .., None => .. }
InboundEvent(item) ==
  CASE item = "Err" -> EvRecvError
    [] item = "End" -> EvDisconnected
    [] OTHER -> EvReceived

SendPcOf(ev) ==
  CASE ev = EvReceived -> "send_received"
    [] ev = EvRecvError -> "send_recv_error"
    [] ev = EvDisconnected -> "send_disconnected"
    [] ev = EvTimeout -> "send_timeout"

\* branches of tokio::select! that are ready to complete
ReadyBranches(s) ==
  (IF inbound[s] # "pending" THEN {"inbound"} ELSE {})
    \cup (IF timer[s] = "elapsed" THEN {"timer"} ELSE {})

\* tokio::select! completes with one ready branch, the other future is
\* dropped; the branch body calls send(..)
Select(s, branch) ==
  /\ pc[s] = "waiting"
  /\ branch \in ReadyBranches(s)
  /\ picked' = [picked EXCEPT ![s] = branch]
  /\ LET ev == IF branch = "inbound" THEN InboundEvent(inbound[s])
                                     ELSE EvTimeout IN
       /\ Emit(s, ev)
       /\ pc' = [pc EXCEPT ![s] = SendPcOf(ev)]
  /\ timer' = [timer EXCEPT ![s] = IF branch = "inbound" THEN "dropped" ELSE @]
  /\ UNCHANGED <<pendingCalls, caller, table, chan, sinkOpen, received, conn,
                 fx, inbound>>
  /\ UNCHANGED compVars

\* ---------------------------------------------------------------- environment
\* the server delivers the first inbound item (or closes) on an open stream
InboundArrives(s, item) ==
  /\ conn[s] = "open"
  /\ pc[s] \in {"send_connected", "subscribing", "send_sent_sub", "waiting"}
  /\ inbound[s] = "pending"
  /\ inbound' = [inbound EXCEPT ![s] = item]
  /\ UNCHANGED <<pendingCalls, caller, table, pc, emitted, chan, sinkOpen,
                 received, conn, fx, timer, picked>>
  /\ UNCHANGED compVars

\* Duration::from_secs(30) passes
TimerElapses(s) ==
  /\ pc[s] = "waiting"
  /\ timer[s] = "running"
  /\ timer' = [timer EXCEPT ![s] = "elapsed"]
  /\ UNCHANGED <<pendingCalls, caller, table, pc, emitted, chan, sinkOpen,
                 received, conn, fx, inbound, picked>>
  /\ UNCHANGED compVars

\* the observer takes the next event off the channel
ObserverRecv(s) ==
  /\ sinkOpen[s]
  /\ chan[s] # <<>>
  /\ received' = [received EXCEPT ![s] = Append(@, Head(chan[s]))]
  /\ chan' = [chan EXCEPT ![s] = Tail(@)]
  /\ UNCHANGED <<pendingCalls, caller, table, pc, emitted, sinkOpen, conn, fx,
                 inbound, timer, picked>>
  /\ UNCHANGED compVars

\* the observer drops the Receiver; buffered events are discarded
ObserverClose(s) ==
  /\ sinkOpen[s]
  /\ pc[s] \notin Terminal
  /\ sinkOpen' = [sinkOpen EXCEPT ![s] = FALSE]
  /\ chan' = [chan EXCEPT ![s] = <<>>]
  /\ UNCHANGED <<pendingCalls, caller, table, pc, emitted, received, conn, fx,
                 inbound, timer, picked>>
  /\ UNCHANGED compVars

\* ------------------------------------------------------ configuration compiler
Keys == {"endpoint", "subscription_message", "buffer_size"}
OptVals == Endpoints \cup SubMsgs
\* HashMap<String, String>: a function from the keys present to their values
OptMaps == UNION {[D -> OptVals] : D \in SUBSET Keys}
\* Option<&ConnectionSchema>; only the format field is read
Schemas == {None} \cup {Some([format |-> f]) : f \in {None, Some("json")}}
Names == {"feed"}
Ids == {None, Some(7)}

\* anyhow::Result<Connection>
Ok(c) == [ok |-> TRUE, err |-> <<>>, conn |-> Some(c)]
Err(e) == [ok |-> FALSE, err |-> e, conn |-> None]

ErrMissingOption(k) == <<"MissingOption", k>>
ErrNoSchema == <<"no schema defined for WebSocket connection">>
ErrNoFormat == <<"'format' must be set for WebSocket connection">>

\* HashMap::remove leaves every other entry alone
Remove(o, k) == [x \in DOMAIN o \ {k} |-> o[x]]

\* crate::pull_opt(name, opts): takes the required key out of the map, or
\* fails with the missing-option error and leaves the map as it is
pull_opt(name, o) ==
  IF name \in DOMAIN o
    THEN [ok |-> TRUE, val |-> Some(o[name]), err |-> <<>>,
          opts |-> Remove(o, name)]
    ELSE [ok |-> FALSE, val |-> None, err |-> ErrMissingOption(name),
          opts |-> o]

\* crate::EmptyConfig {} and its JSON value, the empty object
EmptyConfig == [x \in {} |-> ""]

\* serde_json::to_value(table): the JSON object of a WebsocketTable; an
\* absent subscription_message is not written
TableToJson(t) ==
  [k \in (IF IsSome(t.subscription_message)
            THEN {"endpoint", "subscription_message"}
            ELSE {"endpoint"}) |->
     IF k = "endpoint" THEN t.endpoint ELSE Unwrap(t.subscription_message)]

\* serde_json::from_value::<WebsocketTable>: endpoint is required, a
\* subscription_message member is optional; Err is modelled as None
TableFromJson(j) ==
  IF "endpoint" \in DOMAIN j
    THEN Some([endpoint |-> j["endpoint"],
               subscription_message |->
                 IF "subscription_message" \in DOMAIN j
                   THEN Some(j["subscription_message"]) ELSE None])
    ELSE None

\* serde_json::to_value(config) of the profile: one member per field
ProfileToJson(c) == [k \in DOMAIN c |-> c[k]]

\* serde_json::from_value::<EmptyConfig>: the struct has no field to read,
\* members of the object are ignored
ProfileFromJson(j) == Some(EmptyConfig)

\* serde_json::to_string(&OperatorConfig): the members in field order, each
\* a <<key, value>> pair; Option::None is written as null (None)
OperatorConfigToString(c) ==
  << <<"connection", c.connection>>,
     <<"table", c.table>>,
     <<"rate_limit", c.rate_limit>>,
     <<"format", c.format>> >>

\* the value of member key in the JSON text str
Member(str, key) ==
  str[CHOOSE i \in 1..Len(str) : str[i][1] = key][2]

\* serde_json::from_str::<OperatorConfig>: members are found by key
OperatorConfigFromString(str) ==
  [connection |-> Member(str, "connection"),
   table |-> Member(str, "table"),
   rate_limit |-> Member(str, "rate_limit"),
   format |-> Member(str, "format")]

\* format!("WebsocketSource<{}>", table.endpoint), kept as its three pieces
Description(t) == <<"WebsocketSource<", t.endpoint, ">">>

OperatorKey == "connectors::websocket::WebsocketSourceFunc"

\* from_config that passes an unset format through instead of failing
from_config_FormatUnchecked(id, name, config, t, sch) ==
  IF ~IsSome(sch) THEN Err(ErrNoSchema)
  ELSE Ok([id |-> id,
           name |-> name,
           connection_type |-> "Source",
           schema |-> Unwrap(sch),
           operator |-> OperatorKey,
           config |-> OperatorConfigToString(
                      [connection |-> ProfileToJson(config),
                       table |-> TableToJson(t),
                       rate_limit |-> None,
                       format |-> Unwrap(sch).format]),
           description |-> Description(t)])

\* from_config that writes the profile where the table belongs and the
\* table where the profile belongs
from_config_TableProfileSwapped(id, name, config, t, sch) ==
  IF ~IsSome(sch) THEN Err(ErrNoSchema)
  ELSE IF ~IsSome(Unwrap(sch).format) THEN Err(ErrNoFormat)
  ELSE Ok([id |-> id,
           name |-> name,
           connection_type |-> "Source",
           schema |-> Unwrap(sch),
           operator |-> OperatorKey,
           config |-> OperatorConfigToString(
                      [connection |-> TableToJson(t),
                       table |-> ProfileToJson(config),
                       rate_limit |-> None,
                       format |-> Some(Unwrap(Unwrap(sch).format))]),
           description |-> Description(t)])

\* from_config that reports the connection as a sink
from_config_SinkType(id, name, config, t, sch) ==
  IF ~IsSome(sch) THEN Err(ErrNoSchema)
  ELSE IF ~IsSome(Unwrap(sch).format) THEN Err(ErrNoFormat)
  ELSE Ok([id |-> id,
           name |-> name,
           connection_type |-> "Sink",
           schema |-> Unwrap(sch),
           operator |-> OperatorKey,
           config |-> OperatorConfigToString(
                      [connection |-> ProfileToJson(config),
                       table |-> TableToJson(t),
                       rate_limit |-> None,
                       format |-> Some(Unwrap(Unwrap(sch).format))]),
           description |-> Description(t)])

\* fn from_config(&self, id, name, config, table, schema)
from_config(id, name, config, t, sch) ==
  IF ~IsSome(sch) THEN Err(ErrNoSchema)
  ELSE IF ~IsSome(Unwrap(sch).format) THEN Err(ErrNoFormat)
  ELSE Ok([id |-> id,
           name |-> name,
           connection_type |-> "Source",
           schema |-> Unwrap(sch),
           operator |-> OperatorKey,
           config |-> OperatorConfigToString(
                      [connection |-> ProfileToJson(config),
                       table |-> TableToJson(t),
                       rate_limit |-> None,
                       format |-> Some(Unwrap(Unwrap(sch).format))]),
           description |-> Description(t)])

\* from_options that looks at the schema before it pulls the endpoint
from_options_SchemaFirst(name, o, sch) ==
  IF ~IsSome(sch) THEN [ret |-> Err(ErrNoSchema), opts |-> o]
  ELSE
  LET p == pull_opt("endpoint", o) IN
    IF ~p.ok THEN [ret |-> Err(p.err), opts |-> p.opts]
    ELSE LET subscription_message ==
               IF "subscription_message" \in DOMAIN p.opts
                 THEN Some(p.opts["subscription_message"]) ELSE None
         IN [ret |-> from_config(None, name, EmptyConfig,
                       [endpoint |-> Unwrap(p.val),
                        subscription_message |-> subscription_message],
                       sch),
             opts |-> Remove(p.opts, "subscription_message")]

\* from_options that reads subscription_message with get instead of remove
from_options_PeekSubscription(name, o, sch) ==
  LET p == pull_opt("endpoint", o) IN
    IF ~p.ok THEN [ret |-> Err(p.err), opts |-> p.opts]
    ELSE LET subscription_message ==
               IF "subscription_message" \in DOMAIN p.opts
                 THEN Some(p.opts["subscription_message"]) ELSE None
         IN [ret |-> from_config(None, name, EmptyConfig,
                       [endpoint |-> Unwrap(p.val),
                        subscription_message |-> subscription_message],
                       sch),
             opts |-> p.opts]

\* from_options that removes subscription_message before it pulls endpoint
from_options_RemoveSubFirst(name, o, sch) ==
  LET subscription_message ==
        IF "subscription_message" \in DOMAIN o
          THEN Some(o["subscription_message"]) ELSE None
      p == pull_opt("endpoint", Remove(o, "subscription_message"))
  IN IF ~p.ok THEN [ret |-> Err(p.err), opts |-> p.opts]
     ELSE [ret |-> from_config(None, name, EmptyConfig,
                     [endpoint |-> Unwrap(p.val),
                      subscription_message |-> subscription_message],
                     sch),
           opts |-> p.opts]

\* fn from_options(&self, name, opts, schema): the Result returned and the
\* options map as the call leaves it
from_options(name, o, sch) ==
  LET p == pull_opt("endpoint", o) IN
    IF ~p.ok THEN [ret |-> Err(p.err), opts |-> p.opts]
    ELSE LET subscription_message ==
               IF "subscription_message" \in DOMAIN p.opts
                 THEN Some(p.opts["subscription_message"]) ELSE None
         IN [ret |-> from_config(None, name, EmptyConfig,
                       [endpoint |-> Unwrap(p.val),
                        subscription_message |-> subscription_message],
                       sch),
             opts |-> Remove(p.opts, "subscription_message")]

\* a caller invokes from_options on its options map
CallFromOptions ==
  /\ cpc = "ready"
  /\ LET r == from_options(cargs.name, opts, schema) IN
       /\ result' = r.ret
       /\ opts' = r.opts
  /\ cpc' = "from_options"
  /\ UNCHANGED <<opts0, schema, cargs>>
  /\ UNCHANGED sessVars

\* a caller invokes from_config with typed values
CallFromConfig ==
  /\ cpc = "ready"
  /\ result' = from_config(cargs.id, cargs.name, EmptyConfig, cargs.table,
                           schema)
  /\ cpc' = "from_config"
  /\ UNCHANGED <<opts, opts0, schema, cargs>>
  /\ UNCHANGED sessVars

\* ------------------------------------------------------------ specifications
CompIdle ==
  /\ opts = <<>>
  /\ opts0 = <<>>
  /\ schema = None
  /\ cargs = <<>>
  /\ cpc = "idle"
  /\ result = <<>>

SessInit(calls) ==
  /\ pendingCalls = calls
  /\ caller = [s \in Sessions |-> "idle"]
  /\ table = [s \in Sessions |-> None]
  /\ pc = [s \in Sessions |-> "notstarted"]
  /\ emitted = [s \in Sessions |-> <<>>]
  /\ chan = [s \in Sessions |-> <<>>]
  /\ sinkOpen = [s \in Sessions |-> TRUE]
  /\ received = [s \in Sessions |-> <<>>]
  /\ conn = [s \in Sessions |-> "none"]
  /\ fx = [s \in Sessions |-> {}]
  /\ inbound = [s \in Sessions |-> "pending"]
  /\ timer = [s \in Sessions |-> "unset"]
  /\ picked = [s \in Sessions |-> "none"]

\* one test() call
Init == SessInit({1}) /\ CompIdle

Next ==
  \/ \E s \in Sessions, t \in Tables : Test(s, t)
  \/ \E s \in Sessions, ok \in BOOLEAN : ConnectDone(s, ok)
  \/ \E s \in Sessions : SendOk(s)
  \/ \E s \in Sessions : SendErr(s)
  \/ \E s \in Sessions, ok \in BOOLEAN : SubscribeDone(s, ok)
  \/ \E s \in Sessions, b \in {"inbound", "timer"} : Select(s, b)
  \/ \E s \in Sessions, i \in InboundItems : InboundArrives(s, i)
  \/ \E s \in Sessions : TimerElapses(s)
  \/ \E s \in Sessions : ObserverRecv(s)
  \/ \E s \in Sessions : ObserverClose(s)

Spec == Init /\ [][Next]_vars

\* every test() call of the caller is made: the sessions run concurrently
ParInit == SessInit(Sessions) /\ CompIdle

ParSpec == ParInit /\ [][Next]_vars

\* The runtime polls a task whose await can complete, transport operations
\* and the sleep resolve, and an observer that holds the Receiver keeps
\* reading it. Nothing obliges the observer to keep the Receiver.
Fairness ==
  \A s \in Sessions :
    /\ WF_vars(\E ok \in BOOLEAN : ConnectDone(s, ok))
    /\ WF_vars(SendOk(s))
    /\ WF_vars(SendErr(s))
    /\ WF_vars(\E ok \in BOOLEAN : SubscribeDone(s, ok))
    /\ WF_vars(\E b \in {"inbound", "timer"} : Select(s, b))
    /\ WF_vars(TimerElapses(s))
    /\ WF_vars(ObserverRecv(s))

FairSpec == Init /\ [][Next]_vars /\ Fairness

\* the compiler on every input of the bounded domains; no session runs
CompInit ==
  /\ SessInit({})
  /\ opts \in OptMaps
  /\ opts0 = opts
  /\ schema \in Schemas
  /\ cargs \in [id : Ids, name : Names, table : Tables]
  /\ cpc = "ready"
  /\ result = <<>>

CompNext == CallFromOptions \/ CallFromConfig

SpecCompile == CompInit /\ [][CompNext]_vars

\* ---------------------------------------------------------------- properties
Range(q) == {q[i] : i \in 1..Len(q)}
Started(s) == pc[s] \notin {"notstarted"}
ConnectFailed(s) == pc[s] \notin {"notstarted", "connecting"} /\ conn[s] = "none"
HasSubscription(s) ==
  IsSome(table[s]) /\ IsSome(Unwrap(table[s]).subscription_message)
\* events the body of the select! produces
WaitingEvents == {EvReceived, EvRecvError, EvDisconnected, EvTimeout}

\* C1: every session's event sequence has its done = true event last and
\* nowhere else, and a session that has ended has emitted that event.
C1_ExactlyOneDoneLast ==
  \A s \in Sessions :
    /\ \A i \in 1..Len(emitted[s]) :
         emitted[s][i].done => i = Len(emitted[s])
    /\ pc[s] \in Terminal =>
         /\ emitted[s] # <<>>
         /\ emitted[s][Len(emitted[s])].done

\* C2: a failed connect yields exactly one event, with error and done set,
\* and the task then only delivers it and ends: no websocket send, no read,
\* no timer.
C2_ConnectFailureSingleEvent ==
  \A s \in Sessions :
    ConnectFailed(s) =>
      /\ Len(emitted[s]) = 1
      /\ emitted[s][1].error /\ emitted[s][1].done
      /\ emitted[s][1] = EvConnectFailed
      /\ pc[s] \in {"send_connect_failed", "done", "panicked"}
      /\ fx[s] = {}
      /\ timer[s] = "unset"
      /\ picked[s] = "none"

C2_Witness ==
  \E s \in Sessions :
    ConnectFailed(s) /\ pc[s] = "done" /\ received[s] = <<EvConnectFailed>>

\* C3: once the select! completes with the sleep branch, the last event is
\* the timeout event (error and done set), it occurs once, and neither the
\* received-message nor the validated event is in the sequence.
C3_TimeoutIsTerminal ==
  \A s \in Sessions :
    picked[s] = "timer" =>
      /\ emitted[s][Len(emitted[s])] = EvTimeout
      /\ emitted[s][Len(emitted[s])].error
      /\ emitted[s][Len(emitted[s])].done
      /\ Cardinality({i \in 1..Len(emitted[s]) : emitted[s][i] = EvTimeout}) = 1
      /\ EvReceived \notin Range(emitted[s])
      /\ EvValidated \notin Range(emitted[s])
      /\ pc[s] \in {"send_timeout", "done", "panicked"}

C3_Witness ==
  \E s \in Sessions :
    picked[s] = "timer" /\ pc[s] = "done" /\ inbound[s] = "pending"

\* C4: with a subscription message configured, a session that has started
\* the select! has emitted connected then the non-terminal subscription
\* confirmation, the confirmation was accepted by the sink before the read
\* and the timer started, and every event of the select! comes after it.
C4_SubscriptionConfirmedBeforeWaiting ==
  \A s \in Sessions :
    (HasSubscription(s)
       /\ (pc[s] = "waiting" \/ picked[s] # "none" \/ "ws_read" \in fx[s]
             \/ Range(emitted[s]) \cap WaitingEvents # {})) =>
      /\ Len(emitted[s]) >= 2
      /\ emitted[s][1] = EvConnected
      /\ emitted[s][2] = EvSentSub
      /\ ~emitted[s][2].error /\ ~emitted[s][2].done
      /\ "ws_send" \in fx[s]
      /\ \A i \in 1..Len(emitted[s]) :
           emitted[s][i] \in WaitingEvents => i > 2

C4_Witness ==
  \E s \in Sessions :
    /\ HasSubscription(s)
    /\ picked[s] = "inbound"
    /\ emitted[s] = <<EvConnected, EvSentSub, EvReceived, EvValidated>>

\* C5: connect succeeded, no subscription message, the select! completed
\* with an inbound frame: the session that has ended emitted exactly
\* connected, received-message, validated, and sent nothing to the server.
C5_ThreeEventRun ==
  \A s \in Sessions :
    (pc[s] \in Terminal
       /\ IsSome(table[s]) /\ ~HasSubscription(s)
       /\ picked[s] = "inbound" /\ inbound[s] \in {"Text", "Close"}) =>
      /\ emitted[s] = <<EvConnected, EvReceived, EvValidated>>
      /\ "ws_send" \notin fx[s]

\* C6: test() has returned as soon as the task exists, before any step of
\* the session, and nothing the session does afterwards (a panic included)
\* changes that.
C6_CallerReturnsAtSpawn ==
  \A s \in Sessions :
    /\ Started(s) => caller[s] = "returned"
    /\ caller[s] # "unwound"

C6_Witness ==
  \E s \in Sessions :
    pc[s] = "panicked" /\ caller[s] = "returned" /\ emitted[s] # <<>>

\* C7: a closed sink never takes the session to a panic: a session that has
\* ended ended by returning, with the websocket released.
C7_ClosedSinkEndsNormally ==
  \A s \in Sessions :
    /\ pc[s] # "panicked"
    /\ pc[s] \in Terminal => conn[s] # "open"

\* C8: from_options on a map without "endpoint" returns the missing-option
\* error for "endpoint" and no Connection, whatever the schema and the
\* other keys are.
C8_MissingEndpoint ==
  (cpc = "from_options" /\ "endpoint" \notin DOMAIN opts0) =>
    /\ result = Err(ErrMissingOption("endpoint"))
    /\ ~result.ok
    /\ result.conn = None

C8_Witness ==
  /\ cpc = "from_options"
  /\ "endpoint" \notin DOMAIN opts0
  /\ "subscription_message" \in DOMAIN opts0
  /\ schema = None
  /\ result.err = ErrMissingOption("endpoint")

\* from_config has run: called directly, or by from_options with an endpoint
FromConfigRan ==
  \/ cpc = "from_config"
  \/ cpc = "from_options" /\ "endpoint" \in DOMAIN opts0

\* C9: from_config returns a Connection only for a schema with a format;
\* no schema gives the missing-schema error, a schema without format the
\* missing-format error, and an error carries no Connection.
C9_SchemaAndFormatRequired ==
  FromConfigRan =>
    /\ ~IsSome(schema) => result = Err(ErrNoSchema)
    /\ (IsSome(schema) /\ ~IsSome(Unwrap(schema).format)) =>
         result = Err(ErrNoFormat)
    /\ result.ok => (IsSome(schema) /\ IsSome(Unwrap(schema).format))
    /\ result.ok <=> IsSome(result.conn)

C9_Witness ==
  /\ cpc = "from_config"
  /\ IsSome(schema)
  /\ ~IsSome(Unwrap(schema).format)
  /\ result = Err(ErrNoFormat)

\* C10: after a successful from_options the map holds exactly the entries
\* it held before, less "endpoint" and "subscription_message".
C10_ConsumesRecognizedKeys ==
  (cpc = "from_options" /\ result.ok) =>
    /\ DOMAIN opts = DOMAIN opts0 \ {"endpoint", "subscription_message"}
    /\ \A k \in DOMAIN opts : opts[k] = opts0[k]

C10_Witness ==
  /\ cpc = "from_options"
  /\ result.ok
  /\ DOMAIN opts0 = Keys
  /\ DOMAIN opts = {"buffer_size"}

\* the table from_options builds from the options map it was given
TableOfOptions(o) ==
  [endpoint |-> o["endpoint"],
   subscription_message |->
     IF "subscription_message" \in DOMAIN o
       THEN Some(o["subscription_message"]) ELSE None]

\* the table a successful compile call was made for
CompiledTable ==
  IF cpc = "from_config" THEN cargs.table ELSE TableOfOptions(opts0)

\* C11: reading back the table and connection members of the OperatorConfig
\* text in Connection.config gives the Table and the Profile that were
\* compiled, an absent subscription_message staying absent and a present
\* one staying present.
C11_ConfigRoundTrip ==
  (cpc \in {"from_config", "from_options"} /\ result.ok) =>
    LET oc == OperatorConfigFromString(Unwrap(result.conn).config) IN
      /\ TableFromJson(oc.table) = Some(CompiledTable)
      /\ ProfileFromJson(oc.connection) = Some(EmptyConfig)
      /\ oc.connection = ProfileToJson(EmptyConfig)

C11_Witness ==
  /\ cpc = "from_config"
  /\ result.ok
  /\ IsSome(cargs.table.subscription_message)
  /\ "subscription_message" \in
       DOMAIN OperatorConfigFromString(Unwrap(result.conn).config).table

\* C12: from_options on a map with endpoint E and a schema with a format
\* returns a Connection with id None, the given name, type Source, the
\* schema, the websocket source operator key, description
\* WebsocketSource<E>, and a config whose table has endpoint E and a
\* subscription_message exactly when the map had that key.
C12_FromOptionsConnection ==
  (cpc = "from_options" /\ "endpoint" \in DOMAIN opts0
     /\ IsSome(schema) /\ IsSome(Unwrap(schema).format)) =>
    /\ result.ok
    /\ LET c == Unwrap(result.conn)
           tj == OperatorConfigFromString(c.config).table IN
         /\ c.id = None
         /\ c.name = cargs.name
         /\ c.connection_type = "Source"
         /\ c.schema = Unwrap(schema)
         /\ c.operator = "connectors::websocket::WebsocketSourceFunc"
         /\ c.description = <<"WebsocketSource<", opts0["endpoint"], ">">>
         /\ tj["endpoint"] = opts0["endpoint"]
         /\ "subscription_message" \in DOMAIN tj
              <=> "subscription_message" \in DOMAIN opts0
         /\ "subscription_message" \in DOMAIN tj =>
              tj["subscription_message"] = opts0["subscription_message"]

C12_Witness ==
  /\ cpc = "from_options"
  /\ result.ok
  /\ opts0 = [k \in {"endpoint"} |-> "ws://a/feed"]
  /\ Unwrap(result.conn).description = <<"WebsocketSource<", "ws://a/feed", ">">>

\* C13: a session that has been spawned eventually ends by returning, with
\* a done = true event as the last one it emitted.
C13_EventuallyTerminalEvent ==
  \A s \in Sessions :
    (pc[s] = "connecting") ~>
      (pc[s] = "done" /\ emitted[s] # <<>>
         /\ emitted[s][Len(emitted[s])].done)

IsPrefix(a, b) ==
  /\ Len(a) <= Len(b)
  /\ \A i \in 1..Len(a) : a[i] = b[i]

SoloWait(w) ==
  CASE w = "timer" -> <<EvTimeout>>
    [] w = "Err" -> <<EvRecvError>>
    [] w = "End" -> <<EvDisconnected>>
    [] OTHER -> <<EvReceived, EvValidated>>

\* the event sequence of a session run alone to its return, for table t and
\* the outcomes of its connect, its subscription send and its race
Solo(t, connected, subOk, w) ==
  IF ~connected THEN <<EvConnectFailed>>
  ELSE IF ~IsSome(t.subscription_message) THEN <<EvConnected>> \o SoloWait(w)
  ELSE IF subOk THEN <<EvConnected, EvSentSub>> \o SoloWait(w)
  ELSE <<EvConnected, EvSubFailed>>

\* everything the model holds for session s
Local(s) ==
  <<caller[s], table[s], pc[s], emitted[s], chan[s], sinkOpen[s],
    received[s], conn[s], fx[s], inbound[s], timer[s], picked[s]>>

\* the emitted sequence of s follows from its own table and outcomes
OwnSequence(s) ==
  IF pc[s] \in {"notstarted", "connecting"} THEN emitted[s] = <<>>
  ELSE \E subOk \in BOOLEAN, w \in InboundItems \cup {"timer"} :
         /\ picked[s] = "timer" => w = "timer"
         /\ picked[s] = "inbound" => w = inbound[s]
         /\ "ws_send_err" \in fx[s] => ~subOk
         /\ LET x == Solo(Unwrap(table[s]), conn[s] # "none", subOk, w) IN
              /\ IsPrefix(emitted[s], x)
              /\ pc[s] = "done" => emitted[s] = x

\* C15: with the sessions running concurrently, each one's event sequence
\* is the one its own table and its own connect, send and race outcomes
\* give when it runs alone, and a step of one session (its panic or return
\* included) changes nothing of another session.
C15_SessionsIndependent ==
  /\ [](\A s \in Sessions : OwnSequence(s))
  /\ [][\A s, t \in Sessions :
          (s # t /\ Local(s)' # Local(s)) => Local(t)' = Local(t)]_vars

C15_Witness ==
  \E s, t \in Sessions :
    /\ s # t
    /\ pc[s] = "panicked"
    /\ pc[t] = "done"
    /\ emitted[t] = <<EvConnected, EvReceived, EvValidated>>

\* positions of the events of the select! in the sequence of s
WaitingPositions(s) ==
  {i \in 1..Len(emitted[s]) : emitted[s][i] \in WaitingEvents}

\* C16: the select! is acted upon once: at most one of its events is ever
\* emitted, never the timeout event together with an event of the inbound
\* arm, and the event is that of the branch select! completed with, also
\* when both branches were ready.
C16_OneBranchActedUpon ==
  \A s \in Sessions :
    /\ Cardinality(WaitingPositions(s)) =
         (IF picked[s] = "none" THEN 0 ELSE 1)
    /\ ~(EvTimeout \in Range(emitted[s])
           /\ Range(emitted[s])
                \cap {EvReceived, EvRecvError, EvDisconnected} # {})
    /\ picked[s] = "timer" =>
         \A i \in WaitingPositions(s) : emitted[s][i] = EvTimeout
    /\ picked[s] = "inbound" =>
         \A i \in WaitingPositions(s) :
           emitted[s][i] = InboundEvent(inbound[s])

C16_Witness ==
  \E s \in Sessions :
    /\ picked[s] = "timer"
    /\ inbound[s] = "Text"
    /\ timer[s] = "elapsed"
    /\ pc[s] = "done"
    /\ emitted[s] = <<EvConnected, EvTimeout>>

\* C17: when the select! completes with a disconnect (end of stream or a
\* close frame yielded as an item) or with an error, the session emits a
\* terminal error event and neither the received-message nor the validated
\* event.
C17_DisconnectOrErrorFails ==
  \A s \in Sessions :
    (picked[s] = "inbound" /\ inbound[s] \in {"Close", "Err", "End"}) =>
      /\ emitted[s][Len(emitted[s])].error
      /\ emitted[s][Len(emitted[s])].done
      /\ EvReceived \notin Range(emitted[s])
      /\ EvValidated \notin Range(emitted[s])

\* C18: after a failed subscription send the sequence is connected followed
\* by a terminal error event, and the task only delivers it and ends: no
\* read of the stream, no timer, no select!.
C18_SubscriptionFailureStops ==
  \A s \in Sessions :
    "ws_send_err" \in fx[s] =>
      /\ HasSubscription(s)
      /\ Len(emitted[s]) = 2
      /\ emitted[s][1] = EvConnected
      /\ ~emitted[s][1].error /\ ~emitted[s][1].done
      /\ emitted[s][2].error /\ emitted[s][2].done
      /\ emitted[s][2] = EvSubFailed
      /\ pc[s] \in {"send_sub_failed", "done", "panicked"}
      /\ "ws_read" \notin fx[s]
      /\ "timer" \notin fx[s]
      /\ timer[s] = "unset"
      /\ picked[s] = "none"

C18_Witness ==
  \E s \in Sessions :
    /\ "ws_send_err" \in fx[s]
    /\ pc[s] = "done"
    /\ received[s] = <<EvConnected, EvSubFailed>>

\* C19: an event with error set has done set; a done event without error
\* is the validated event and directly follows the non-terminal
\* received-message event.
C19_ErrorImpliesDone ==
  \A s \in Sessions :
    \A i \in 1..Len(emitted[s]) :
      /\ emitted[s][i].error => emitted[s][i].done
      /\ (emitted[s][i].done /\ ~emitted[s][i].error) =>
           /\ emitted[s][i] = EvValidated
           /\ i > 1
           /\ emitted[s][i - 1] = EvReceived
           /\ ~emitted[s][i - 1].done /\ ~emitted[s][i - 1].error

C19_Witness ==
  \E s \in Sessions :
    /\ pc[s] = "done"
    /\ inbound[s] = "Err"
    /\ emitted[s] = <<EvConnected, EvSentSub, EvRecvError>>

\* C20 as claimed: a from_options call that fails leaves the options map as
\* it was before the call.
C20_FailureLeavesMapUnchanged ==
  (cpc = "from_options" /\ ~result.ok) => opts = opts0

\* C20: a from_options call that fails for a missing endpoint leaves the
\* map as it was (a subscription_message entry stays); a call that fails
\* for the schema or its format has removed endpoint and
\* subscription_message and left every other entry as it was.
C20_FailureMapEffect ==
  (cpc = "from_options" /\ ~result.ok) =>
    /\ "endpoint" \notin DOMAIN opts0 =>
         /\ result.err = ErrMissingOption("endpoint")
         /\ opts = opts0
    /\ "endpoint" \in DOMAIN opts0 =>
         /\ result.err \in {ErrNoSchema, ErrNoFormat}
         /\ DOMAIN opts =
              DOMAIN opts0 \ {"endpoint", "subscription_message"}
         /\ \A k \in DOMAIN opts : opts[k] = opts0[k]

C20_Witness ==
  /\ cpc = "from_options"
  /\ result = Err(ErrNoSchema)
  /\ DOMAIN opts0 = Keys
  /\ DOMAIN opts = {"buffer_size"}

====
